---- MODULE Spec2Model ----
(***************************************************************************)
(* Membership reconciliation of sambacc's CTDB support.                    *)
(*                                                                         *)
(* Two artifacts are shared by the node processes:                         *)
(*   doc   - the "nodes" array of the JSON state file (Membership          *)
(*           Document): a sequence of entries {node, pnn, in_nodes};       *)
(*   nodes - the lines of the ctdb nodes file (Nodes List).  A missing     *)
(*           file reads as the empty list (read_ctdb_nodes).               *)
(* The state file is guarded by an exclusive flock held while the file is  *)
(* open; the nodes file has no lock of its own.  ctdb finds the nodes file *)
(* through a symlink at its canonical path.                                *)
(*                                                                         *)
(* The state file may be absent: opening it read-only then raises          *)
(* FileNotFoundError, opening it read-write creates it.  The nodes file is *)
(* rewritten by open(real_path, "w"), which empties it, and the lines are  *)
(* written afterwards: each rewrite is two steps, and a reader between     *)
(* them finds the empty list.                                              *)
(*                                                                         *)
(* Specifications:                                                         *)
(*   Spec       - the deployed system: both artifacts start empty, every   *)
(*                process runs the commands ctdb-set-node and              *)
(*                ctdb-must-have-node and the manage_nodes iteration with  *)
(*                its own (node, node number).  The addresses are tokens:  *)
(*                p1 has "a", p2 has "b", or "a" when it is the same node  *)
(*                started a second time;                                   *)
(*   SpecApi    - _node_update driven the way its tests drive it: one      *)
(*                process calls it again and again on a state file and a   *)
(*                nodes file of any content;                               *)
(*   SpecAdd    - add_node_to_statefile called with any arguments on a     *)
(*                state file of any content;                               *)
(*   SpecSup    - the command ctdb-manage-nodes: one process runs the      *)
(*                retry loop around manage_nodes on files of any content;  *)
(*   SpecEnsure - ensure_ctdb_node_present called with any arguments on a  *)
(*                nodes file of any content.                               *)
(***************************************************************************)
EXTENDS Naturals, Sequences, FiniteSets

VARIABLES
    doc,      \* state file: sequence of [node, pnn, in_nodes]
    exists,   \* the state file exists (an absent file has doc = <<>>)
    nodes,    \* nodes file: sequence of addresses, index i+1 is pnn i
    symlink,  \* the canonical path is a symlink to the nodes file
    lock,     \* holder of the flock on the state file, or NoProc
    pc,       \* per process: position in the running operation
    loc,      \* per process: local variables of the running operation
    ident,    \* per process: [node, pnn, numbered] from the command line
    sup,      \* per process: the retry loop of ctdb-manage-nodes
    cur,      \* per process: record of the current / last _node_update
    prev,     \* per process: record of the direct call of _node_update
              \* before the current one
    addrec,   \* per process: record of the last add_node_to_statefile
    ensrec,   \* per process: record of the last ensure_ctdb_node_present
    gate      \* per process: "ready" once ctdb-must-have-node has returned,
              \* "nofile" once it has raised FileNotFoundError

vars == <<doc, exists, nodes, symlink, lock, pc, loc, ident, sup, cur, prev, addrec,
          ensrec, gate>>

(***************************************************************************)
(* Bounds                                                                  *)
(***************************************************************************)
MaxPnn == 2
MaxInitDoc == 2
MaxInitNodes == 2
MaxOk == 2
MaxPass == 3

\* ctdb_manage_nodes gives up when errors > 10
MaxErrors == 10

\* addresses of the nodes, and the addresses a nodes file may hold
Addrs == {"a", "b"}
FileAddrs == {"a", "b", "c"}
Pnns == 0..MaxPnn
Procs == {"p1", "p2"}
ApiProcs == {"p1"}
NoProc == "none"

(***************************************************************************)
(* Data                                                                    *)
(***************************************************************************)
Entry(n, p, i) == [node |-> n, pnn |-> p, in_nodes |-> i]

Entries == {Entry(n, p, i) : n \in Addrs, p \in Pnns, i \in BOOLEAN}

Range(s) == {s[i] : i \in 1..Len(s)}

PnnsOf(d) == {d[i].pnn : i \in 1..Len(d)}

UniquePnn(d) == \A i, j \in 1..Len(d) : d[i].pnn = d[j].pnn => i = j

SeqsUpTo(S, n) == UNION {[1..k -> S] : k \in 0..n}

NoDup(s) == \A i, j \in 1..Len(s) : s[i] = s[j] => i = j

\* read_ctdb_nodes: the lines of the nodes file, [] when it is absent
read_ctdb_nodes == nodes

\* write_nodes_file(fh, ctdb_nodes) on a file opened with open(path, "w"):
\* the lines go to the start of the file as it is when they are flushed,
\* and nothing is cut off behind them. The file was emptied by the open;
\* lines another process has written since then stay behind the lines
\* written here (the addresses are taken to be of one length)
write_nodes_file(fh, ctdb_nodes) ==
    ctdb_nodes \o SubSeq(fh, Len(ctdb_nodes) + 1, Len(fh))

\* entry["node"] == ctdb_nodes[pnn], IndexError giving False
matched(entry, ctdb_nodes) ==
    /\ entry.pnn + 1 <= Len(ctdb_nodes)
    /\ ctdb_nodes[entry.pnn + 1] = entry.node

(***************************************************************************)
(* _update_statefile: the duplicate check and the append.                  *)
(***************************************************************************)
\* variant: no duplicate check at all
update_statefile_unchecked(data, node, pnn, in_nodes) ==
    [err |-> FALSE, data |-> Append(data, Entry(node, pnn, in_nodes))]

\* variant: an entry is a duplicate only if the address is the same too
update_statefile_same_node(data, node, pnn, in_nodes) ==
    IF \E i \in 1..Len(data) : data[i].pnn = pnn /\ data[i].node = node
    THEN [err |-> TRUE, data |-> data]
    ELSE [err |-> FALSE, data |-> Append(data, Entry(node, pnn, in_nodes))]

_update_statefile(data, node, pnn, in_nodes) ==
    IF \E i \in 1..Len(data) : data[i].pnn = pnn
    THEN [err |-> TRUE, data |-> data]
    ELSE [err |-> FALSE, data |-> Append(data, Entry(node, pnn, in_nodes))]

(***************************************************************************)
(* _node_update_check: the decision function.  need_reload holds the       *)
(* positions (in json_data) of the entries the Python list refers to.      *)
(***************************************************************************)
RECURSIVE check_loop(_, _, _, _, _)
check_loop(desired, ctdb_nodes, i, new_nodes, need_reload) ==
    IF i > Len(desired)
    THEN [err |-> FALSE, ctdb_nodes |-> ctdb_nodes,
          new_nodes |-> new_nodes, need_reload |-> need_reload]
    ELSE LET entry == desired[i] IN
         IF matched(entry, ctdb_nodes) /\ entry.in_nodes
         THEN check_loop(desired, ctdb_nodes, i + 1, new_nodes, need_reload)
         ELSE IF ~entry.in_nodes
         THEN check_loop(desired, ctdb_nodes, i + 1, new_nodes,
                         Append(need_reload, i))
         ELSE IF Len(ctdb_nodes) > entry.pnn
         THEN [err |-> TRUE, ctdb_nodes |-> ctdb_nodes,
               new_nodes |-> <<>>, need_reload |-> <<>>]
         ELSE check_loop(desired, ctdb_nodes, i + 1,
                         Append(new_nodes, entry.node), Append(need_reload, i))

_node_update_check(json_data, ctdb_nodes) ==
    check_loop(json_data, ctdb_nodes, 1, <<>>, <<>>)

\* variant: only the entries of need_reload are kept
set_in_nodes_reloaded_only(json_data, need_reload) ==
    [k \in 1..Len(need_reload) |->
        [json_data[need_reload[k]] EXCEPT !.in_nodes = TRUE]]

\* for entry in need_reload: entry["in_nodes"] = True
set_in_nodes(json_data, need_reload) ==
    [i \in 1..Len(json_data) |->
        IF i \in Range(need_reload)
        THEN [json_data[i] EXCEPT !.in_nodes = TRUE]
        ELSE json_data[i]]

\* variant: in_nodes is not looked at
pnn_in_nodes_any(pnn, json_data) ==
    \E i \in 1..Len(json_data) : pnn = json_data[i].pnn

\* pnn_in_nodes: some entry has the pnn and in_nodes set
pnn_in_nodes(pnn, json_data) ==
    \E i \in 1..Len(json_data) :
        pnn = json_data[i].pnn /\ json_data[i].in_nodes

(***************************************************************************)
(* Process-local state                                                     *)
(***************************************************************************)
\* ensure: ctdb_set_node goes on to ensure_ctdb_node_present;
\* expect: expected_pnn is not None; before: the lines the nodes file held
\* when the process opened it for writing
NoLoc == [json_data |-> <<>>, ctdb_nodes |-> <<>>, new_nodes |-> <<>>,
          need_reload |-> <<>>, node |-> "a", pnn |-> 0, in_nodes |-> FALSE,
          ensure |-> FALSE, expect |-> FALSE, before |-> <<>>]

\* out: "none" before any pass, "run" while one runs, then how it ended
\* (or how the iteration of manage_nodes ended that raised before it):
\*   "noop"   returned False (no changes at the probe or at the recheck)
\*   "ok"     returned True
\*   "valerr" _node_update_check raised ValueError
\*   "relerr" the reload command failed (CalledProcessError)
\*   "nofile" the state file is absent (FileNotFoundError)
\* sdoc, snodes: both files as the pass began; edoc, enodes: as it ended;
\* wn: the nodes file was written; rl: reload invocations; wd: the state
\* file was written; n: the direct calls of _node_update so far (counted
\* up to MaxPass); clean: none of the earlier calls raised; fdoc, fnodes:
\* both files as the first direct call began; chg: the read-only probe found
\* changes to make; rc: how the reload command ended ("none", "ok", "fail")
NoPass == [out |-> "none", sdoc |-> <<>>, snodes |-> <<>>,
           edoc |-> <<>>, enodes |-> <<>>,
           wn |-> FALSE, rl |-> 0, wd |-> FALSE, n |-> 0, clean |-> TRUE,
           fdoc |-> <<>>, fnodes |-> <<>>, chg |-> FALSE, rc |-> "none"]

NoPrev == [out |-> "none", edoc |-> <<>>, enodes |-> <<>>]

\* the last add_node_to_statefile: its arguments, the Document it loaded,
\* how it ended ("ok", "dup", or "refreshed" when ctdb_set_node returned
\* after the refresh), and how many calls of the process succeeded
NoAdd == [out |-> "none", sdoc |-> <<>>, node |-> "a", pnn |-> 0,
          in_nodes |-> FALSE, okcnt |-> 0]

\* the last ensure_ctdb_node_present: its arguments, the nodes file and the
\* symlink as it began, how it ended ("ok", "valerr", "linkerr" for the
\* FileExistsError of os.symlink, or "crash" when the process died before
\* the nodes file was written), and whether it has removed and re-created
\* the symlink
NoEns == [out |-> "none", snodes |-> <<>>, ssym |-> FALSE, node |-> "a",
          pnn |-> 0, expect |-> FALSE, link |-> FALSE]

\* ctdb_manage_nodes: mode "off" (not started), "on", "dead" (it has raised),
\* "interrupted" (a KeyboardInterrupt has left it); errors: the variable of
\* the code; consec: the passes that have raised since the last pass that
\* returned; intr: a KeyboardInterrupt has been raised in the process;
\* waited: pause_func or waiter.wait has been called since the loop began;
\* psw: the calls of _node_update since the last wait, counted up to 2
NoSup == [mode |-> "off", errors |-> 0, consec |-> 0, intr |-> FALSE,
          waited |-> FALSE, psw |-> 0]

Completed == {"noop", "ok", "valerr", "relerr"}

Raised == {"valerr", "relerr", "nofile"}

\* the with-block of the state file is left: the file is closed, the flock
\* dropped
unlock(p) == lock' = IF lock = p THEN NoProc ELSE lock

\* jfile.flock: exclusive and blocking
flock(p) == lock = NoProc /\ lock' = p

\* variant: manage_nodes goes round without calling pause_func
after_pass_no_pause(p, out) ==
    IF sup[p].mode = "on"
    THEN IF out \in Raised THEN "except" ELSE "check"
    ELSE "idle"

\* where control goes when _node_update returns or raises: back to the
\* caller of a direct call; inside manage_nodes on to pause_func, and with
\* an exception out of manage_nodes to the handler of ctdb_manage_nodes
after_pass(p, out) ==
    IF sup[p].mode = "on"
    THEN IF out \in Raised THEN "except" ELSE "pause"
    ELSE "idle"

returns(p, out) ==
    /\ pc' = [pc EXCEPT ![p] = after_pass(p, out)]
    /\ loc' = [loc EXCEPT ![p] = NoLoc]
    /\ sup' = [sup EXCEPT ![p].consec =
                  IF sup[p].mode = "on"
                  THEN IF out \in Raised THEN @ + 1 ELSE 0
                  ELSE @]

\* _node_update ends without having written anything
end_pass(p, out) ==
    /\ cur' = [cur EXCEPT ![p].out = out, ![p].edoc = doc, ![p].enodes = nodes]
    /\ returns(p, out)

(***************************************************************************)
(* add_node_to_statefile, as called by ctdb-set-node or directly           *)
(***************************************************************************)
\* expected_pnn == 0, where expected_pnn is np.node_number and may be None
expected_pnn_is_0(p) == ident[p].numbered /\ ident[p].pnn = 0

\* variant: the refresh never finds the entry
refresh_never(data, node, pnn) == FALSE

\* refresh_node_in_cluster_meta: TRUE when the state file has an entry of
\* this pnn and this address (the refresh succeeds and changes nothing),
\* FALSE when it has none (NodeNotPresent)
refresh_node_in_cluster_meta(data, node, pnn) ==
    \E i \in 1..Len(data) : data[i].pnn = pnn /\ data[i].node = node

\* ctdb_set_node: pnn = int(expected_pnn or 0), in_nodes = (expected_pnn ==
\* 0), and when expected_pnn == 0 the nodes file is written afterwards
SetNodeStart(p) ==
    /\ pc[p] = "idle"
    /\ pc' = [pc EXCEPT ![p] = "refresh"]
    /\ loc' = [loc EXCEPT ![p] = [NoLoc EXCEPT !.node = ident[p].node,
                                               !.pnn = ident[p].pnn,
                                               !.in_nodes = expected_pnn_is_0(p),
                                               !.ensure = expected_pnn_is_0(p),
                                               !.expect = TRUE]]
    /\ UNCHANGED <<doc, exists, nodes, symlink, lock, ident, sup, cur, prev, addrec,
                   ensrec, gate>>

\* ctdb_set_node: the refresh is tried first; it returns, and the command
\* with it, or raises NodeNotPresent, and the command goes on to add
SetNodeRefresh(p) ==
    /\ pc[p] = "refresh"
    /\ lock = NoProc
    /\ IF refresh_node_in_cluster_meta(doc, loc[p].node, loc[p].pnn)
       THEN /\ pc' = [pc EXCEPT ![p] = "idle"]
            /\ loc' = [loc EXCEPT ![p] = NoLoc]
            /\ addrec' = [addrec EXCEPT ![p] =
                            [out |-> "refreshed", sdoc |-> doc,
                             node |-> loc[p].node, pnn |-> loc[p].pnn,
                             in_nodes |-> loc[p].in_nodes,
                             okcnt |-> addrec[p].okcnt]]
       ELSE /\ pc' = [pc EXCEPT ![p] = "add_open"]
            /\ UNCHANGED <<loc, addrec>>
    /\ UNCHANGED <<doc, exists, nodes, symlink, lock, ident, sup, cur, prev, ensrec,
                   gate>>

\* ctdb_set_node run for another node of the cluster, of address node and
\* node number pnn > 0
SetNodeOther(p, node, pnn) ==
    /\ pc[p] = "idle"
    /\ pc' = [pc EXCEPT ![p] = "refresh"]
    /\ loc' = [loc EXCEPT ![p] = [NoLoc EXCEPT !.node = node, !.pnn = pnn,
                                               !.expect = TRUE]]
    /\ UNCHANGED <<doc, exists, nodes, symlink, lock, ident, sup, cur, prev, addrec,
                   ensrec, gate>>

\* a direct call add_node_to_statefile(node, pnn, path, in_nodes); the
\* record of the call before it is dropped
AddNodeStart(p, node, pnn, in_nodes) ==
    /\ pc[p] = "idle"
    /\ pc' = [pc EXCEPT ![p] = "add_open"]
    /\ loc' = [loc EXCEPT ![p] = [NoLoc EXCEPT !.node = node, !.pnn = pnn,
                                               !.in_nodes = in_nodes]]
    /\ addrec' = [addrec EXCEPT ![p] = [NoAdd EXCEPT !.okcnt = addrec[p].okcnt]]
    /\ UNCHANGED <<doc, exists, nodes, symlink, lock, ident, sup, cur, prev,
                   ensrec, gate>>

\* jfile.open(path, OPEN_RW), which creates the state file, empty, when it
\* is absent; the lock is not asked for yet
AddNodeOpen(p) ==
    /\ pc[p] = "add_open"
    /\ exists' = TRUE
    /\ pc' = [pc EXCEPT ![p] = "add_lock"]
    /\ UNCHANGED <<doc, nodes, symlink, lock, loc, ident, sup, cur, prev, addrec,
                   ensrec, gate>>

\* jfile.flock(fh), which waits while another process holds the lock
AddNodeLock(p) ==
    /\ pc[p] = "add_lock"
    /\ flock(p)
    /\ pc' = [pc EXCEPT ![p] = "add_update"]
    /\ UNCHANGED <<doc, exists, nodes, symlink, loc, ident, sup, cur, prev, addrec,
                   ensrec, gate>>

\* variant: the duplicate error leaves the state file open and locked
AddNodeUpdate_keeps_lock(p) ==
    /\ pc[p] = "add_update"
    /\ LET r == _update_statefile(doc, loc[p].node, loc[p].pnn, loc[p].in_nodes)
           rec == [out |-> "none", sdoc |-> doc, node |-> loc[p].node,
                   pnn |-> loc[p].pnn, in_nodes |-> loc[p].in_nodes,
                   okcnt |-> addrec[p].okcnt]
       IN IF r.err
          THEN /\ pc' = [pc EXCEPT ![p] = "idle"]
               /\ loc' = [loc EXCEPT ![p] = NoLoc]
               /\ addrec' = [addrec EXCEPT ![p] = [rec EXCEPT !.out = "dup"]]
          ELSE /\ pc' = [pc EXCEPT ![p] = "add_dump"]
               /\ loc' = [loc EXCEPT ![p].json_data = r.data]
               /\ addrec' = [addrec EXCEPT ![p] = rec]
    /\ UNCHANGED <<doc, exists, nodes, symlink, lock, ident, sup, cur, prev, ensrec,
                   gate>>

\* data = jfile.load(fh, {}); _update_statefile(data, ...)
AddNodeUpdate(p) ==
    /\ pc[p] = "add_update"
    /\ LET r == _update_statefile(doc, loc[p].node, loc[p].pnn, loc[p].in_nodes)
           rec == [out |-> "none", sdoc |-> doc, node |-> loc[p].node,
                   pnn |-> loc[p].pnn, in_nodes |-> loc[p].in_nodes,
                   okcnt |-> addrec[p].okcnt]
       IN IF r.err
          THEN /\ unlock(p)
               /\ pc' = [pc EXCEPT ![p] = "idle"]
               /\ loc' = [loc EXCEPT ![p] = NoLoc]
               /\ addrec' = [addrec EXCEPT ![p] = [rec EXCEPT !.out = "dup"]]
          ELSE /\ pc' = [pc EXCEPT ![p] = "add_dump"]
               /\ loc' = [loc EXCEPT ![p].json_data = r.data]
               /\ addrec' = [addrec EXCEPT ![p] = rec]
               /\ UNCHANGED lock
    /\ UNCHANGED <<doc, exists, nodes, symlink, ident, sup, cur, prev, ensrec, gate>>

\* jfile.dump(data, fh), and the with-block ends
AddNodeDump(p) ==
    /\ pc[p] = "add_dump"
    /\ doc' = loc[p].json_data
    /\ unlock(p)
    /\ addrec' = [addrec EXCEPT ![p].out = "ok",
                                ![p].okcnt = IF @ < MaxOk THEN @ + 1 ELSE @]
    /\ IF loc[p].ensure
       THEN /\ pc' = [pc EXCEPT ![p] = "ensure_read"]
            /\ loc' = [loc EXCEPT ![p].json_data = <<>>]
       ELSE /\ pc' = [pc EXCEPT ![p] = "idle"]
            /\ loc' = [loc EXCEPT ![p] = NoLoc]
    /\ UNCHANGED <<exists, nodes, symlink, ident, sup, cur, prev, ensrec, gate>>

(***************************************************************************)
(* ensure_ctdb_node_present(node, real_path, canon_path, expected_pnn)     *)
(***************************************************************************)
index(s, x) == CHOOSE i \in 1..Len(s) : s[i] = x /\ \A j \in 1..(i - 1) : s[j] # x

\* variant: the node is appended whether it is listed or not
node_present_always(read, node) == Append(read, node)

\* if node not in nodes: nodes.append(node)
node_present(read, node) ==
    IF node \in Range(read) THEN read ELSE Append(read, node)

\* a direct call ensure_ctdb_node_present(node, real_path, canon_path,
\* expected_pnn); expect = FALSE is expected_pnn = None
EnsureStart(p, node, expect, pnn) ==
    /\ pc[p] = "idle"
    /\ pc' = [pc EXCEPT ![p] = "ensure_read"]
    /\ loc' = [loc EXCEPT ![p] = [NoLoc EXCEPT !.node = node, !.pnn = pnn,
                                               !.expect = expect]]
    /\ UNCHANGED <<doc, exists, nodes, symlink, lock, ident, sup, cur, prev, addrec,
                   ensrec, gate>>

\* the nodes file is read, the node added to the list in memory, and the
\* position checked; ValueError leaves the function here
EnsureRead(p) ==
    /\ pc[p] = "ensure_read"
    /\ LET ns == node_present(read_ctdb_nodes, loc[p].node)
           found_pnn == index(ns, loc[p].node) - 1
           rec == [out |-> "run", snodes |-> nodes, ssym |-> symlink,
                   node |-> loc[p].node, pnn |-> loc[p].pnn,
                   expect |-> loc[p].expect, link |-> FALSE]
       IN IF loc[p].expect /\ loc[p].pnn # found_pnn
          THEN /\ pc' = [pc EXCEPT ![p] = "idle"]
               /\ loc' = [loc EXCEPT ![p] = NoLoc]
               /\ ensrec' = [ensrec EXCEPT ![p] = [rec EXCEPT !.out = "valerr"]]
          ELSE /\ pc' = [pc EXCEPT ![p] = "ensure_link"]
               /\ loc' = [loc EXCEPT ![p].ctdb_nodes = ns]
               /\ ensrec' = [ensrec EXCEPT ![p] = rec]
    /\ UNCHANGED <<doc, exists, nodes, symlink, lock, ident, sup, cur, prev, addrec,
                   gate>>

\* ensure_ctdb_nodes: os.unlink(canon_path), and FileNotFoundError is
\* passed over: the canonical path is no link any more
EnsureUnlink(p) ==
    /\ pc[p] = "ensure_link"
    /\ symlink' = FALSE
    /\ pc' = [pc EXCEPT ![p] = "ensure_symlink"]
    /\ UNCHANGED <<doc, exists, nodes, lock, loc, ident, sup, cur, prev, addrec,
                   ensrec, gate>>

\* ensure_ctdb_nodes: os.symlink(real_path, canon_path), which raises
\* FileExistsError when another process has made the link since the unlink
EnsureLink(p) ==
    /\ pc[p] = "ensure_symlink"
    /\ IF symlink
       THEN /\ pc' = [pc EXCEPT ![p] = "idle"]
            /\ loc' = [loc EXCEPT ![p] = NoLoc]
            /\ ensrec' = [ensrec EXCEPT ![p].out = "linkerr"]
            /\ UNCHANGED symlink
       ELSE /\ symlink' = TRUE
            /\ ensrec' = [ensrec EXCEPT ![p].link = TRUE]
            /\ pc' = [pc EXCEPT ![p] = "ensure_write"]
            /\ UNCHANGED loc
    /\ UNCHANGED <<doc, exists, nodes, lock, ident, sup, cur, prev, addrec, gate>>

\* ensure_ctdb_nodes: open(real_path, "w") empties the real nodes file
EnsureOpen(p) ==
    /\ pc[p] = "ensure_write"
    /\ nodes' = <<>>
    /\ loc' = [loc EXCEPT ![p].before = nodes]
    /\ pc' = [pc EXCEPT ![p] = "ensure_flush"]
    /\ UNCHANGED <<doc, exists, symlink, lock, ident, sup, cur, prev,
                   addrec, ensrec, gate>>

\* ensure_ctdb_nodes: write_nodes_file, and the file is closed
EnsureWrite(p) ==
    /\ pc[p] = "ensure_flush"
    /\ nodes' = write_nodes_file(nodes, loc[p].ctdb_nodes)
    /\ ensrec' = [ensrec EXCEPT ![p].out = "ok"]
    /\ pc' = [pc EXCEPT ![p] = "idle"]
    /\ loc' = [loc EXCEPT ![p] = NoLoc]
    /\ UNCHANGED <<doc, exists, symlink, lock, ident, sup, cur, prev, addrec, gate>>

\* the process of ctdb_set_node dies after add_node_to_statefile has
\* returned and before ensure_ctdb_nodes has written the lines of the nodes
\* file: before the nodes file is read, or at any statement after that
\* (between os.unlink and os.symlink too).  Both files and the symlink stay
\* as the statements executed have left them; the lines not yet flushed are
\* lost.  Of the record of the call only the outcome changes: the files as
\* the call found them stay as EnsureRead has recorded them.
Crash(p) ==
    /\ pc[p] \in {"ensure_read", "ensure_link", "ensure_symlink",
                  "ensure_write", "ensure_flush"}
    /\ pc' = [pc EXCEPT ![p] = "idle"]
    /\ loc' = [loc EXCEPT ![p] = NoLoc]
    /\ ensrec' = [ensrec EXCEPT ![p].out = "crash"]
    /\ UNCHANGED <<doc, exists, nodes, symlink, lock, ident, sup, cur, prev, addrec,
                   gate>>

(***************************************************************************)
(* ctdb_must_have_node: poll the state file until the node is confirmed    *)
(***************************************************************************)
CtdbMustHaveNode(p) ==
    /\ pc[p] = "idle"
    /\ pc' = [pc EXCEPT ![p] = "poll"]
    /\ gate' = [gate EXCEPT ![p] = "none"]
    /\ UNCHANGED <<doc, exists, nodes, symlink, lock, loc, ident, sup, cur, prev,
                   addrec, ensrec>>

\* one poll: the state file is opened, locked, loaded and closed; when it
\* is absent FileNotFoundError ends the command (gate "nofile")
MustHaveNodePoll(p) ==
    /\ pc[p] = "poll"
    /\ IF ~exists
       THEN /\ pc' = [pc EXCEPT ![p] = "idle"]
            /\ gate' = [gate EXCEPT ![p] = "nofile"]
       ELSE /\ lock = NoProc
            /\ IF pnn_in_nodes(ident[p].pnn, doc)
               THEN /\ pc' = [pc EXCEPT ![p] = "idle"]
                    /\ gate' = [gate EXCEPT ![p] = "ready"]
               ELSE /\ pc' = [pc EXCEPT ![p] = "poll_wait"]
                    /\ UNCHANGED gate
    /\ UNCHANGED <<doc, exists, nodes, symlink, lock, loc, ident, sup, cur, prev,
                   addrec, ensrec>>

\* waiter.wait() returns
MustHaveNodeWait(p) ==
    /\ pc[p] = "poll_wait"
    /\ pc' = [pc EXCEPT ![p] = "poll"]
    /\ UNCHANGED <<doc, exists, nodes, symlink, lock, loc, ident, sup, cur, prev,
                   addrec, ensrec, gate>>

(***************************************************************************)
(* manage_nodes: one iteration, and _node_update                           *)
(***************************************************************************)
\* variant: the node is eligible as soon as the state file has its entry
node_check_entry_only(pnn, desired, ctdb_nodes) ==
    \E i \in 1..Len(desired) : desired[i].pnn = pnn

\* _node_check: is this node allowed to make updates
_node_check(pnn, desired, ctdb_nodes) ==
    /\ \E i \in 1..Len(desired) : desired[i].pnn = pnn
    /\ LET my_desired == desired[CHOOSE i \in 1..Len(desired) :
                                    /\ desired[i].pnn = pnn
                                    /\ \A j \in 1..(i - 1) : desired[j].pnn # pnn]
       IN my_desired.node \in Range(ctdb_nodes)

\* [e for e in desired if e.get("pnn") == pnn]
entries_of(pnn, desired) == SelectSeq(desired, LAMBDA e : e.pnn = pnn)

begin_pass(p, direct) ==
    /\ prev' = IF direct
               THEN [prev EXCEPT ![p] = [out |-> cur[p].out,
                                         edoc |-> cur[p].edoc,
                                         enodes |-> cur[p].enodes]]
               ELSE prev
    /\ cur' = [cur EXCEPT ![p] =
                 [NoPass EXCEPT !.out = "run", !.sdoc = doc, !.snodes = nodes,
                                !.n = IF direct /\ cur[p].n < MaxPass
                                      THEN cur[p].n + 1 ELSE cur[p].n,
                                !.clean = IF direct
                                          THEN /\ cur[p].clean
                                               /\ cur[p].out \in
                                                    {"none", "ok", "noop"}
                                          ELSE cur[p].clean,
                                !.fdoc = IF direct /\ cur[p].n = 0
                                         THEN doc ELSE cur[p].fdoc,
                                !.fnodes = IF direct /\ cur[p].n = 0
                                           THEN nodes ELSE cur[p].fnodes]]

\* one iteration of manage_nodes, on its own or (at "check") inside
\* ctdb_manage_nodes, begins: _node_check opens the state file read-only,
\* which raises FileNotFoundError when it is absent, loads it under the
\* flock, and leaves the with-block.  Of the list loaded, _node_check uses
\* the entries of the local pnn and nothing else; they are what is kept.
ManageNodes(p) ==
    /\ pc[p] = IF sup[p].mode = "on" THEN "check" ELSE "idle"
    /\ sup[p].mode # "dead"
    /\ IF ~exists
       THEN /\ returns(p, "nofile")
            /\ cur' = [cur EXCEPT ![p].out = "nofile"]
       ELSE /\ lock = NoProc
            /\ pc' = [pc EXCEPT ![p] = "node_check"]
            /\ loc' = [loc EXCEPT ![p] =
                          [NoLoc EXCEPT !.json_data =
                                            entries_of(ident[p].pnn, doc)]]
            /\ UNCHANGED <<sup, cur>>
    /\ UNCHANGED <<doc, exists, nodes, symlink, lock, ident, prev, addrec,
                   ensrec, gate>>

\* _node_check goes on without the lock: the nodes file is read and the
\* eligibility decided from it and from the state file as loaded; an
\* eligible node begins _node_update, an ineligible one goes on to
\* pause_func
NodeCheck(p) ==
    /\ pc[p] = "node_check"
    /\ IF _node_check(ident[p].pnn, loc[p].json_data, read_ctdb_nodes)
       THEN /\ pc' = [pc EXCEPT ![p] = "probe"]
            /\ begin_pass(p, FALSE)
            /\ sup' = [sup EXCEPT ![p].psw = IF sup[p].mode = "on" /\ @ < 2
                                             THEN @ + 1 ELSE @]
       ELSE /\ pc' = [pc EXCEPT ![p] = after_pass(p, "noop")]
            /\ UNCHANGED <<cur, prev, sup>>
    /\ loc' = [loc EXCEPT ![p] = NoLoc]
    /\ UNCHANGED <<doc, exists, nodes, symlink, lock, ident, addrec, ensrec,
                   gate>>

\* a direct call _node_update(nodes_json, real_path)
NodeUpdateStart(p) ==
    /\ pc[p] = "idle"
    /\ pc' = [pc EXCEPT ![p] = "probe"]
    /\ begin_pass(p, TRUE)
    /\ UNCHANGED <<doc, exists, nodes, symlink, lock, loc, ident, sup, addrec, ensrec,
                   gate>>

\* the read-only probe: open (FileNotFoundError when the state file is
\* absent), flock, load, _node_update_check, close
NodeUpdateProbe(p) ==
    /\ pc[p] = "probe"
    /\ IF ~exists
       THEN end_pass(p, "nofile")
       ELSE /\ lock = NoProc
            /\ LET r == _node_update_check(doc, read_ctdb_nodes)
               IN IF r.err
                  THEN end_pass(p, "valerr")
                  ELSE IF r.new_nodes = <<>> /\ r.need_reload = <<>>
                  THEN end_pass(p, "noop")
                  ELSE /\ pc' = [pc EXCEPT ![p] = "commit_lock"]
                       /\ cur' = [cur EXCEPT ![p].chg = TRUE]
                       /\ UNCHANGED <<loc, sup>>
    /\ UNCHANGED <<doc, exists, nodes, symlink, lock, ident, prev, addrec, ensrec, gate>>

\* jfile.open(nodes_json, OPEN_RW); jfile.flock(fh)
NodeUpdateLock(p) ==
    /\ pc[p] = "commit_lock"
    /\ flock(p)
    /\ pc' = [pc EXCEPT ![p] = "recheck"]
    /\ UNCHANGED <<doc, exists, nodes, symlink, loc, ident, sup, cur, prev, addrec,
                   ensrec, gate>>

\* variant: the plan is made from the files as the pass found them, not
\* from the files as they are under the lock
NodeUpdateRecheck_stale(p) ==
    /\ pc[p] = "recheck"
    /\ LET r == _node_update_check(cur[p].sdoc, cur[p].snodes)
       IN IF r.err
          THEN unlock(p) /\ end_pass(p, "valerr")
          ELSE IF r.new_nodes = <<>> /\ r.need_reload = <<>>
          THEN unlock(p) /\ end_pass(p, "noop")
          ELSE /\ pc' = [pc EXCEPT ![p] = "write"]
               /\ loc' = [loc EXCEPT ![p].json_data = cur[p].sdoc,
                                     ![p].ctdb_nodes = r.ctdb_nodes,
                                     ![p].new_nodes = r.new_nodes,
                                     ![p].need_reload = r.need_reload]
               /\ UNCHANGED <<lock, cur, sup>>
    /\ UNCHANGED <<doc, exists, nodes, symlink, ident, prev, addrec, ensrec, gate>>

\* the state is loaded and examined again under the lock
NodeUpdateRecheck(p) ==
    /\ pc[p] = "recheck"
    /\ LET r == _node_update_check(doc, read_ctdb_nodes)
       IN IF r.err
          THEN unlock(p) /\ end_pass(p, "valerr")
          ELSE IF r.new_nodes = <<>> /\ r.need_reload = <<>>
          THEN unlock(p) /\ end_pass(p, "noop")
          ELSE /\ pc' = [pc EXCEPT ![p] = "write"]
               /\ loc' = [loc EXCEPT ![p].json_data = doc,
                                     ![p].ctdb_nodes = r.ctdb_nodes,
                                     ![p].new_nodes = r.new_nodes,
                                     ![p].need_reload = r.need_reload]
               /\ UNCHANGED <<lock, cur, sup>>
    /\ UNCHANGED <<doc, exists, nodes, symlink, ident, prev, addrec, ensrec, gate>>

\* open(real_path, "w") empties the nodes file
NodeUpdateOpen(p) ==
    /\ pc[p] = "write"
    /\ nodes' = <<>>
    /\ loc' = [loc EXCEPT ![p].before = nodes]
    /\ cur' = [cur EXCEPT ![p].wn = TRUE]
    /\ pc' = [pc EXCEPT ![p] = "write_nodes"]
    /\ UNCHANGED <<doc, exists, symlink, lock, ident, sup, prev, addrec,
                   ensrec, gate>>

\* variant: only the new addresses are written
NodeUpdateWrite_new_only(p) ==
    /\ pc[p] = "write_nodes"
    /\ nodes' = write_nodes_file(nodes, loc[p].new_nodes)
    /\ pc' = [pc EXCEPT ![p] = "reload"]
    /\ UNCHANGED cur
    /\ UNCHANGED <<doc, exists, symlink, lock, loc, ident, sup, prev, addrec, ensrec,
                   gate>>

\* variant: the new addresses are written in front of the old ones
NodeUpdateWrite_prepend(p) ==
    /\ pc[p] = "write_nodes"
    /\ nodes' = write_nodes_file(nodes, loc[p].new_nodes \o loc[p].ctdb_nodes)
    /\ pc' = [pc EXCEPT ![p] = "reload"]
    /\ UNCHANGED cur
    /\ UNCHANGED <<doc, exists, symlink, lock, loc, ident, sup, prev, addrec, ensrec,
                   gate>>

\* all_nodes = ctdb_nodes + new_nodes is written to the nodes file, which
\* is flushed and closed
NodeUpdateWrite(p) ==
    /\ pc[p] = "write_nodes"
    /\ nodes' = write_nodes_file(nodes, loc[p].ctdb_nodes \o loc[p].new_nodes)
    /\ pc' = [pc EXCEPT ![p] = "reload"]
    /\ UNCHANGED cur
    /\ UNCHANGED <<doc, exists, symlink, lock, loc, ident, sup, prev, addrec, ensrec,
                   gate>>

\* variant: the exit status of the reload command is not looked at
NodeUpdateReload_unchecked(p) ==
    /\ pc[p] = "reload"
    /\ \E ok \in BOOLEAN :
          /\ pc' = [pc EXCEPT ![p] = "dump"]
          /\ cur' = [cur EXCEPT ![p].rl = @ + 1,
                                ![p].rc = IF ok THEN "ok" ELSE "fail"]
          /\ UNCHANGED <<lock, loc, sup>>
    /\ UNCHANGED <<doc, exists, nodes, symlink, ident, prev, addrec, ensrec, gate>>

\* subprocess.check_call(ctdb reloadnodes): succeeds or fails
NodeUpdateReload(p) ==
    /\ pc[p] = "reload"
    /\ \E ok \in BOOLEAN :
          IF ok
          THEN /\ pc' = [pc EXCEPT ![p] = "dump"]
               /\ cur' = [cur EXCEPT ![p].rl = @ + 1, ![p].rc = "ok"]
               /\ UNCHANGED <<lock, loc, sup>>
          ELSE /\ unlock(p)
               /\ cur' = [cur EXCEPT ![p].rl = @ + 1, ![p].rc = "fail",
                                     ![p].out = "relerr",
                                     ![p].edoc = doc, ![p].enodes = nodes]
               /\ returns(p, "relerr")
    /\ UNCHANGED <<doc, exists, nodes, symlink, ident, prev, addrec, ensrec, gate>>

\* the flags are set, the state file is dumped, the with-block ends
NodeUpdateDump(p) ==
    /\ pc[p] = "dump"
    /\ doc' = set_in_nodes(loc[p].json_data, loc[p].need_reload)
    /\ unlock(p)
    /\ cur' = [cur EXCEPT ![p].wd = TRUE, ![p].out = "ok",
                          ![p].edoc = doc', ![p].enodes = nodes]
    /\ returns(p, "ok")
    /\ UNCHANGED <<exists, nodes, symlink, ident, prev, addrec, ensrec, gate>>

(***************************************************************************)
(* ctdb_manage_nodes: the retry loop around manage_nodes                   *)
(***************************************************************************)
\* errors = 0, and manage_nodes is entered
CtdbManageNodes(p) ==
    /\ pc[p] = "idle"
    /\ sup[p].mode = "off"
    /\ sup' = [sup EXCEPT ![p] = [NoSup EXCEPT !.mode = "on"]]
    /\ pc' = [pc EXCEPT ![p] = "check"]
    /\ UNCHANGED <<doc, exists, nodes, symlink, lock, loc, ident, cur, prev, addrec,
                   ensrec, gate>>

\* pause_func() at the end of an iteration of manage_nodes returns, the
\* while loop of manage_nodes goes round
PauseFunc(p) ==
    /\ pc[p] = "pause"
    /\ pc' = [pc EXCEPT ![p] = "check"]
    /\ sup' = [sup EXCEPT ![p].waited = TRUE, ![p].psw = 0]
    /\ UNCHANGED <<doc, exists, nodes, symlink, lock, loc, ident, cur, prev, addrec,
                   ensrec, gate>>

\* variant: the loop gives up when errors >= 10
ManageNodesExcept_ge(p) ==
    /\ pc[p] = "except"
    /\ LET errors == sup[p].errors + 1
       IN /\ sup' = [sup EXCEPT ![p].errors = errors]
          /\ pc' = [pc EXCEPT ![p] = IF errors >= MaxErrors
                                     THEN "reraise" ELSE "wait"]
    /\ UNCHANGED <<doc, exists, nodes, symlink, lock, loc, ident, cur, prev, addrec,
                   ensrec, gate>>

\* except Exception: errors += 1; if errors > 10: (go on to the raise);
\* (or go on to waiter.wait())
ManageNodesExcept(p) ==
    /\ pc[p] = "except"
    /\ LET errors == sup[p].errors + 1
       IN /\ sup' = [sup EXCEPT ![p].errors = errors]
          /\ pc' = [pc EXCEPT ![p] = IF errors > MaxErrors
                                     THEN "reraise" ELSE "wait"]
    /\ UNCHANGED <<doc, exists, nodes, symlink, lock, loc, ident, cur, prev, addrec,
                   ensrec, gate>>

\* _logger.error("too many retries"); raise: the exception of the pass
\* leaves ctdb_manage_nodes
ManageNodesRaise(p) ==
    /\ pc[p] = "reraise"
    /\ sup' = [sup EXCEPT ![p].mode = "dead"]
    /\ pc' = [pc EXCEPT ![p] = "exit"]
    /\ UNCHANGED <<doc, exists, nodes, symlink, lock, loc, ident, cur, prev, addrec,
                   ensrec, gate>>

\* waiter.wait() in the handler returns, the while loop of
\* ctdb_manage_nodes goes round and enters manage_nodes again
WaiterWait(p) ==
    /\ pc[p] = "wait"
    /\ pc' = [pc EXCEPT ![p] = "check"]
    /\ sup' = [sup EXCEPT ![p].waited = TRUE, ![p].psw = 0]
    /\ UNCHANGED <<doc, exists, nodes, symlink, lock, loc, ident, cur, prev, addrec,
                   ensrec, gate>>

\* where a KeyboardInterrupt can reach the process: inside a pass of
\* manage_nodes, or inside pause_func or waiter.wait
InPass == {"check", "node_check", "probe", "commit_lock", "recheck", "write",
           "write_nodes", "reload", "dump"}

InWait == {"pause", "wait"}

\* the handler of except Exception: before errors += 1, and between the
\* test errors > 10 and the raise
InHandler == {"except", "reraise"}

\* whether jfile.dump has written the state file when the interrupt
\* arrives: it has or it has not at the end of the commit, between the
\* reload and the end of the with-block, and it has not elsewhere
dumped(p) == IF pc[p] = "dump" THEN BOOLEAN ELSE {FALSE}

\* whether subprocess.check_call has started the reload command when the
\* interrupt arrives: it has or it has not at the call, and the command
\* started is killed or its exit status dropped, so that check_call neither
\* returns nor raises CalledProcessError; elsewhere no command is started
started(p) == IF pc[p] = "reload" THEN BOOLEAN ELSE {FALSE}

\* the number of lines of all_nodes that write_nodes_file has written when
\* the interrupt arrives: any number inside the with-block of the nodes
\* file, whose end flushes them, and none elsewhere
partial(p) ==
    IF pc[p] = "write_nodes"
    THEN 0..Len(loc[p].ctdb_nodes \o loc[p].new_nodes)
    ELSE {0}

\* variant: the interrupt is handled like any other exception of the pass
KeyboardInterrupt_counted(p) ==
    /\ sup[p].mode = "on"
    /\ pc[p] \in InPass \cup InWait \cup InHandler
    /\ unlock(p)
    /\ \E k \in partial(p) :
          nodes' = write_nodes_file(
                       nodes, SubSeq(loc[p].ctdb_nodes \o loc[p].new_nodes, 1, k))
    /\ pc' = [pc EXCEPT ![p] = "except"]
    /\ loc' = [loc EXCEPT ![p] = NoLoc]
    /\ sup' = [sup EXCEPT ![p].intr = TRUE]
    /\ \E w \in dumped(p) :
          /\ doc' = IF w THEN set_in_nodes(loc[p].json_data, loc[p].need_reload)
                         ELSE doc
          /\ \E r \in started(p) :
                cur' = [cur EXCEPT ![p].out =
                           IF pc[p] \in InPass \ {"check", "node_check"}
                           THEN "intr" ELSE @,
                                   ![p].wd = @ \/ w,
                                   ![p].rl = IF r THEN @ + 1 ELSE @]
    /\ UNCHANGED <<exists, symlink, ident, prev, addrec, ensrec, gate>>

\* except KeyboardInterrupt: raise. The interrupt arrives inside a pass,
\* inside a wait or inside the handler of the other exceptions (before
\* errors += 1, or after it: on the way to the raise, or in waiter.wait);
\* the with-blocks of the state file and of the nodes file (if open) are
\* left, and the exception leaves ctdb_manage_nodes
KeyboardInterrupt(p) ==
    /\ sup[p].mode = "on"
    /\ pc[p] \in InPass \cup InWait \cup InHandler
    /\ unlock(p)
    /\ \E k \in partial(p) :
          nodes' = write_nodes_file(
                       nodes, SubSeq(loc[p].ctdb_nodes \o loc[p].new_nodes, 1, k))
    /\ pc' = [pc EXCEPT ![p] = "exit"]
    /\ loc' = [loc EXCEPT ![p] = NoLoc]
    /\ sup' = [sup EXCEPT ![p].intr = TRUE, ![p].mode = "interrupted"]
    /\ \E w \in dumped(p) :
          /\ doc' = IF w THEN set_in_nodes(loc[p].json_data, loc[p].need_reload)
                         ELSE doc
          /\ \E r \in started(p) :
                cur' = [cur EXCEPT ![p].out =
                           IF pc[p] \in InPass \ {"check", "node_check"}
                           THEN "intr" ELSE @,
                                   ![p].wd = @ \/ w,
                                   ![p].rl = IF r THEN @ + 1 ELSE @]
    /\ UNCHANGED <<exists, symlink, ident, prev, addrec, ensrec, gate>>

(***************************************************************************)
(* Specifications                                                          *)
(***************************************************************************)
InitCommon ==
    /\ lock = NoProc
    /\ pc = [p \in Procs |-> "idle"]
    /\ loc = [p \in Procs |-> NoLoc]
    /\ sup = [p \in Procs |-> NoSup]
    /\ cur = [p \in Procs |-> NoPass]
    /\ prev = [p \in Procs |-> NoPrev]
    /\ addrec = [p \in Procs |-> NoAdd]
    /\ ensrec = [p \in Procs |-> NoEns]
    /\ gate = [p \in Procs |-> "none"]

\* the command line of a process: its address, and its node number, which
\* may be left out (numbered = FALSE, and pnn is then the default 0)
Idents == {i \in [node : Addrs, pnn : Pnns, numbered : BOOLEAN] :
              ~i.numbered => i.pnn = 0}

DefaultIdent == [node |-> "a", pnn |-> 0, numbered |-> TRUE]

Init ==
    /\ doc = <<>>
    /\ exists = FALSE
    /\ nodes = <<>>
    /\ symlink = FALSE
    /\ ident \in [Procs -> Idents]
    /\ ident["p1"].node = "a"
    /\ ident["p2"].node = "a" => ident["p2"] = ident["p1"]
    /\ InitCommon

Next ==
    \E p \in Procs :
        \/ SetNodeStart(p)
        \/ SetNodeRefresh(p)
        \/ AddNodeOpen(p)
        \/ AddNodeLock(p)
        \/ AddNodeUpdate(p)
        \/ AddNodeDump(p)
        \/ EnsureRead(p)
        \/ EnsureUnlink(p)
        \/ EnsureLink(p)
        \/ EnsureOpen(p)
        \/ EnsureWrite(p)
        \/ CtdbMustHaveNode(p)
        \/ MustHaveNodePoll(p)
        \/ MustHaveNodeWait(p)
        \/ ManageNodes(p)
        \/ NodeCheck(p)
        \/ NodeUpdateProbe(p)
        \/ NodeUpdateLock(p)
        \/ NodeUpdateRecheck(p)
        \/ NodeUpdateOpen(p)
        \/ NodeUpdateWrite(p)
        \/ NodeUpdateReload(p)
        \/ NodeUpdateDump(p)

Spec == Init /\ [][Next]_vars

InitApi ==
    /\ doc \in {d \in SeqsUpTo(Entries, MaxInitDoc) : UniquePnn(d)}
    /\ exists \in {e \in BOOLEAN : ~e => doc = <<>>}
    /\ nodes \in {s \in SeqsUpTo(FileAddrs, MaxInitNodes) : NoDup(s)}
    /\ symlink = TRUE
    /\ ident = [p \in Procs |-> DefaultIdent]
    /\ InitCommon

NextApi ==
    \E p \in ApiProcs :
        \/ NodeUpdateStart(p)
        \/ NodeUpdateProbe(p)
        \/ NodeUpdateLock(p)
        \/ NodeUpdateRecheck(p)
        \/ NodeUpdateOpen(p)
        \/ NodeUpdateWrite(p)
        \/ NodeUpdateReload(p)
        \/ NodeUpdateDump(p)

SpecApi == InitApi /\ [][NextApi]_vars

InitAdd ==
    /\ doc \in {d \in SeqsUpTo(Entries, MaxInitDoc) : UniquePnn(d)}
    /\ exists \in {e \in BOOLEAN : ~e => doc = <<>>}
    /\ nodes = <<>>
    /\ symlink = FALSE
    /\ ident = [p \in Procs |-> DefaultIdent]
    /\ InitCommon

NextAdd ==
    \E p \in ApiProcs :
        \/ \E n \in Addrs, k \in Pnns, i \in BOOLEAN : AddNodeStart(p, n, k, i)
        \/ AddNodeOpen(p)
        \/ AddNodeLock(p)
        \/ AddNodeUpdate(p)
        \/ AddNodeDump(p)

SpecAdd == InitAdd /\ [][NextAdd]_vars

InitSup ==
    /\ doc \in {d \in SeqsUpTo(Entries, MaxInitDoc) : UniquePnn(d)}
    /\ exists \in {e \in BOOLEAN : ~e => doc = <<>>}
    /\ nodes \in {s \in SeqsUpTo(Addrs, MaxInitNodes) : NoDup(s)}
    /\ symlink = TRUE
    /\ ident \in [Procs -> {i \in Idents : i.node = "a" /\ i.numbered}]
    /\ ident["p2"] = DefaultIdent
    /\ InitCommon

NextSup ==
    \E p \in ApiProcs :
        \/ CtdbManageNodes(p)
        \/ ManageNodes(p)
        \/ NodeCheck(p)
        \/ NodeUpdateProbe(p)
        \/ NodeUpdateLock(p)
        \/ NodeUpdateRecheck(p)
        \/ NodeUpdateOpen(p)
        \/ NodeUpdateWrite(p)
        \/ NodeUpdateReload(p)
        \/ NodeUpdateDump(p)
        \/ PauseFunc(p)
        \/ ManageNodesExcept(p)
        \/ ManageNodesRaise(p)
        \/ WaiterWait(p)

SpecSup == InitSup /\ [][NextSup]_vars

\* ctdb-set-node, run and re-run by one node on files as it finds them
InitBoot ==
    /\ doc \in {d \in SeqsUpTo(Entries, MaxInitDoc) : UniquePnn(d)}
    /\ exists \in {e \in BOOLEAN : ~e => doc = <<>>}
    /\ nodes \in {s \in SeqsUpTo(Addrs, MaxInitNodes) : NoDup(s)}
    /\ symlink \in BOOLEAN
    /\ ident \in [Procs -> {i \in Idents : i.numbered}]
    /\ ident["p2"] = DefaultIdent
    /\ InitCommon

NextBoot ==
    \E p \in ApiProcs :
        \/ SetNodeStart(p)
        \/ SetNodeRefresh(p)
        \/ AddNodeOpen(p)
        \/ AddNodeLock(p)
        \/ AddNodeUpdate(p)
        \/ AddNodeDump(p)
        \/ EnsureRead(p)
        \/ EnsureUnlink(p)
        \/ EnsureLink(p)
        \/ EnsureOpen(p)
        \/ EnsureWrite(p)

SpecBoot == InitBoot /\ [][NextBoot]_vars

\* The cluster after the bootstrap of pnn 0: p1 is the node of pnn 0 and
\* has entered the loop of ctdb-manage-nodes; p2 is the node of pnn 1, which runs ctdb-set-node
\* and ctdb-must-have-node, and also stands for the ctdb-set-node of the
\* node of pnn 2.  The reload command succeeds or fails.
Joiner == [node |-> "b", pnn |-> 1, numbered |-> TRUE]

Other == [node |-> "c", pnn |-> 2]

InitLive ==
    /\ doc = <<Entry("a", 0, TRUE)>>
    /\ exists = TRUE
    /\ nodes = <<"a">>
    /\ symlink = TRUE
    /\ ident = [p \in Procs |-> IF p = "p1" THEN DefaultIdent ELSE Joiner]
    /\ lock = NoProc
    /\ pc = [p \in Procs |-> IF p = "p1" THEN "check" ELSE "idle"]
    /\ loc = [p \in Procs |-> NoLoc]
    /\ sup = [p \in Procs |-> IF p = "p1" THEN [NoSup EXCEPT !.mode = "on"]
                                           ELSE NoSup]
    /\ cur = [p \in Procs |-> NoPass]
    /\ prev = [p \in Procs |-> NoPrev]
    /\ addrec = [p \in Procs |-> NoAdd]
    /\ ensrec = [p \in Procs |-> NoEns]
    /\ gate = [p \in Procs |-> "none"]

LiveSup(p) ==
    \/ ManageNodes(p)
    \/ NodeCheck(p)
    \/ NodeUpdateProbe(p)
    \/ NodeUpdateLock(p)
    \/ NodeUpdateRecheck(p)
    \/ NodeUpdateOpen(p)
    \/ NodeUpdateWrite(p)
    \/ NodeUpdateReload(p)
    \/ NodeUpdateDump(p)
    \/ PauseFunc(p)
    \/ ManageNodesExcept(p)
    \/ ManageNodesRaise(p)
    \/ WaiterWait(p)

LiveJoin(p) ==
    \/ SetNodeRefresh(p)
    \/ AddNodeOpen(p)
    \/ AddNodeLock(p)
    \/ AddNodeUpdate(p)
    \/ AddNodeDump(p)

LivePoll(p) ==
    \/ MustHaveNodePoll(p)
    \/ MustHaveNodeWait(p)

NextLive ==
    \/ LiveSup("p1")
    \/ SetNodeStart("p2")
    \/ SetNodeOther("p2", Other.node, Other.pnn)
    \/ LiveJoin("p2")
    \/ CtdbMustHaveNode("p2")
    \/ LivePoll("p2")

\* a process that can take a step takes it: the supervisor is a running
\* process whose waits return, a command that has begun runs to its end,
\* and the poll of ctdb-must-have-node goes round
FairLive ==
    /\ WF_vars(LiveSup("p1"))
    /\ WF_vars(LiveJoin("p2"))
    /\ WF_vars(LivePoll("p2"))

SpecLive == InitLive /\ [][NextLive]_vars /\ FairLive

\* two processes run iterations of manage_nodes on the same files at the
\* same time
InitRace ==
    /\ doc \in {d \in SeqsUpTo(Entries, MaxInitDoc) : UniquePnn(d)}
    /\ exists \in {e \in BOOLEAN : ~e => doc = <<>>}
    /\ nodes \in {s \in SeqsUpTo(Addrs, MaxInitNodes) : NoDup(s)}
    /\ symlink = TRUE
    /\ ident = [p \in Procs |-> DefaultIdent]
    /\ InitCommon

NextRace ==
    \E p \in Procs :
        \/ ManageNodes(p)
        \/ NodeCheck(p)
        \/ NodeUpdateProbe(p)
        \/ NodeUpdateLock(p)
        \/ NodeUpdateRecheck(p)
        \/ NodeUpdateOpen(p)
        \/ NodeUpdateWrite(p)
        \/ NodeUpdateReload(p)
        \/ NodeUpdateDump(p)

SpecRace == InitRace /\ [][NextRace]_vars

\* every user of the lock: one node runs ctdb-set-node and
\* ctdb-must-have-node next to the iterations of manage_nodes of another
InitLock ==
    /\ doc \in {d \in SeqsUpTo(Entries, MaxInitDoc) : UniquePnn(d)}
    /\ exists \in {e \in BOOLEAN : ~e => doc = <<>>}
    /\ nodes \in {s \in SeqsUpTo(Addrs, MaxInitNodes) : NoDup(s)}
    /\ symlink = TRUE
    /\ ident \in [Procs -> {i \in Idents : i.numbered}]
    /\ ident["p1"] = DefaultIdent
    /\ ident["p2"].node = "b" /\ ident["p2"].pnn \in {0, 1}
    /\ InitCommon

LockPass(p) ==
    \/ ManageNodes(p)
    \/ NodeCheck(p)
    \/ NodeUpdateProbe(p)
    \/ NodeUpdateLock(p)
    \/ NodeUpdateRecheck(p)
    \/ NodeUpdateOpen(p)
    \/ NodeUpdateWrite(p)
    \/ NodeUpdateReload(p)
    \/ NodeUpdateDump(p)

LockJoin(p) ==
    \/ SetNodeStart(p)
    \/ SetNodeRefresh(p)
    \/ AddNodeOpen(p)
    \/ AddNodeLock(p)
    \/ AddNodeUpdate(p)
    \/ AddNodeDump(p)
    \/ EnsureRead(p)
    \/ EnsureUnlink(p)
    \/ EnsureLink(p)
    \/ EnsureOpen(p)
    \/ EnsureWrite(p)
    \/ CtdbMustHaveNode(p)
    \/ MustHaveNodePoll(p)
    \/ MustHaveNodeWait(p)

NextLock == LockPass("p1") \/ LockJoin("p2")

SpecLock == InitLock /\ [][NextLock]_vars

\* The node of pnn 0 on a new cluster: p1 runs ctdb-set-node, may die in
\* the middle of it, and runs it again; p2 runs the iterations of
\* manage_nodes of the same node.  Other nodes may have registered before.
InitCrash ==
    /\ doc \in {d \in SeqsUpTo(Entries, MaxInitDoc) :
                  /\ UniquePnn(d)
                  /\ \A i \in 1..Len(d) : d[i].pnn > 0 /\ ~d[i].in_nodes}
    /\ exists \in {e \in BOOLEAN : ~e => doc = <<>>}
    /\ nodes = <<>>
    /\ symlink = FALSE
    /\ ident \in [Procs -> {i \in Idents : i.numbered /\ i.pnn = 0}]
    /\ ident["p1"] = ident["p2"]
    /\ InitCommon

CrashJoin(p) ==
    \/ SetNodeStart(p)
    \/ SetNodeRefresh(p)
    \/ AddNodeOpen(p)
    \/ AddNodeLock(p)
    \/ AddNodeUpdate(p)
    \/ AddNodeDump(p)
    \/ EnsureRead(p)
    \/ EnsureUnlink(p)
    \/ EnsureLink(p)
    \/ EnsureOpen(p)
    \/ EnsureWrite(p)

NextCrash ==
    \/ CrashJoin("p1")
    \/ Crash("p1")
    \/ LockPass("p2")

\* the command is run, and run again, and each run goes on unless the
\* process dies; the iterations of manage_nodes go round
FairCrash ==
    /\ WF_vars(CrashJoin("p1"))
    /\ WF_vars(LockPass("p2"))

SpecCrash == InitCrash /\ [][NextCrash]_vars /\ FairCrash

\* the retry loop with a user who may interrupt it
InitIntr == InitSup

NextIntr ==
    \/ NextSup
    \/ \E p \in ApiProcs : KeyboardInterrupt(p)

SpecIntr == InitIntr /\ [][NextIntr]_vars

InitEnsure ==
    /\ doc = <<>>
    /\ exists = FALSE
    /\ nodes \in SeqsUpTo(FileAddrs, MaxInitNodes)
    /\ symlink \in BOOLEAN
    /\ ident = [p \in Procs |-> DefaultIdent]
    /\ InitCommon

NextEnsure ==
    \E p \in ApiProcs :
        \/ \E n \in Addrs, e \in BOOLEAN, k \in Pnns : EnsureStart(p, n, e, k)
        \/ EnsureRead(p)
        \/ EnsureUnlink(p)
        \/ EnsureLink(p)
        \/ EnsureOpen(p)
        \/ EnsureWrite(p)

SpecEnsure == InitEnsure /\ [][NextEnsure]_vars

(***************************************************************************)
(* Properties of one reconciliation pass (_node_update), read off the      *)
(* record cur[p] of a pass that has ended.                                 *)
(***************************************************************************)
\* the entry is confirmed and its address is at index pnn of the list
Fine(e, ns) == e.in_nodes /\ matched(e, ns)

\* the positions of the entries whose address is not at index pnn
Unmatched(d, ns) == {i \in 1..Len(d) : ~matched(d[i], ns)}

\* appending the unmatched entries in ascending pnn order would not place
\* each at the index equal to its pnn
OutOfOrder(d, ns) ==
    {d[i].pnn : i \in Unmatched(d, ns)} #
        {k \in 0..(Len(ns) + Len(d)) :
            /\ k >= Len(ns)
            /\ k < Len(ns) + Cardinality(Unmatched(d, ns))}

\* entry i is pending with pnn equal to the list length, every other entry
\* is confirmed and present
PendingNext(d, ns, i) ==
    /\ ~d[i].in_nodes
    /\ d[i].pnn = Len(ns)
    /\ \A j \in 1..Len(d) : j # i => Fine(d[j], ns)

\* some entry finds a different address at index pnn of the list
Mismatch(d, ns) ==
    \E i \in 1..Len(d) : d[i].pnn < Len(ns) /\ ns[d[i].pnn + 1] # d[i].node

NoWrites(r) == ~r.wn /\ ~r.wd /\ r.rl = 0

\* C1 (Contiguity): a pass that finds an entry to append whose pnn is not
\* the length of the growing Nodes List ends with ValueError and writes
\* neither file; and every address a pass writes beyond the old list is the
\* address of the Document entry whose pnn is that index.
C1_Contiguity ==
    \A p \in Procs :
        /\ pc[p] = "reload" =>
               \A i \in 1..Len(nodes) :
                   i > Len(cur[p].snodes) =>
                       \E j \in 1..Len(cur[p].sdoc) :
                           /\ cur[p].sdoc[j].pnn = i - 1
                           /\ cur[p].sdoc[j].node = nodes[i]
        /\ cur[p].out \in Completed =>
            (OutOfOrder(cur[p].sdoc, cur[p].snodes) =>
                   cur[p].out = "valerr" /\ ~cur[p].wn /\ ~cur[p].wd)

\* C3 (admitting a pending node): with one pending entry whose pnn is the
\* list length, a pass whose reload succeeds returns True, leaves the Nodes
\* List equal to the old list followed by the entry's address, has invoked
\* reload exactly once and has set the entry's in_nodes.
C3_AdmitPending ==
    \A p \in Procs : \A i \in 1..Len(cur[p].sdoc) :
        (/\ cur[p].out \in Completed \ {"relerr"}
         /\ PendingNext(cur[p].sdoc, cur[p].snodes, i)) =>
            /\ cur[p].out = "ok"
            /\ cur[p].enodes = Append(cur[p].snodes, cur[p].sdoc[i].node)
            /\ cur[p].rl = 1
            /\ cur[p].edoc = [cur[p].sdoc EXCEPT ![i].in_nodes = TRUE]

\* C4 (Idempotence): a pass that starts from exactly the files the previous
\* pass left behind writes neither file and invokes no reload.  (Stated for
\* a previous pass whose reload did not fail; the retry after a failed
\* reload is C8.)
C4_Idempotent ==
    \A p \in Procs :
        (/\ cur[p].out \in Completed
         /\ prev[p].out \in Completed \ {"relerr"}
         /\ cur[p].sdoc = prev[p].edoc
         /\ cur[p].snodes = prev[p].enodes) => NoWrites(cur[p])

\* entries of pnn 0..N-1 in ascending order, none confirmed
PendingAsc(d) == \A i \in 1..Len(d) : d[i].pnn = i - 1 /\ ~d[i].in_nodes

\* C5 (Monotonic convergence): when the first pass began with N pending
\* entries of pnn 0..N-1 and an empty Nodes List, then once N or more passes
\* have run, all of them without error, the Nodes List is the N addresses in
\* pnn order and every entry is confirmed.
C5_Convergence ==
    \A p \in Procs :
        (/\ cur[p].n >= 1
         /\ PendingAsc(cur[p].fdoc)
         /\ cur[p].fnodes = <<>>
         /\ cur[p].out \in {"ok", "noop"}
         /\ cur[p].clean
         /\ cur[p].n >= Len(cur[p].fdoc)) =>
            /\ cur[p].enodes =
                   [i \in 1..Len(cur[p].fdoc) |-> cur[p].fdoc[i].node]
            /\ cur[p].edoc =
                   [i \in 1..Len(cur[p].fdoc) |->
                       [cur[p].fdoc[i] EXCEPT !.in_nodes = TRUE]]

\* C6 (Inconsistency): when the Nodes List holds, at the index of some
\* entry's pnn, another address than the entry's, the pass ends with
\* ValueError, writes neither file and invokes no reload.
C6_Inconsistency ==
    \A p \in Procs :
        (cur[p].out \in Completed /\ Mismatch(cur[p].sdoc, cur[p].snodes)) =>
            cur[p].out = "valerr" /\ NoWrites(cur[p])

\* C7 (reload failure): when the reload fails in a pass admitting a pending
\* entry, the Nodes List as written holds the entry's address at its pnn and
\* the Document is as before the pass.
C7_ReloadFailure ==
    \A p \in Procs : \A i \in 1..Len(cur[p].sdoc) :
        (/\ cur[p].out = "relerr"
         /\ PendingNext(cur[p].sdoc, cur[p].snodes, i)) =>
            /\ cur[p].wn
            /\ matched(cur[p].sdoc[i], cur[p].enodes)
            /\ cur[p].edoc = cur[p].sdoc

\* C8 (retry): the pass that follows a commit whose reload failed, on the
\* files that commit left behind, invokes reload again and appends no
\* address the list already holds.
C8_RetryReload ==
    \A p \in Procs :
        (/\ prev[p].out = "relerr"
         /\ cur[p].out \in Completed
         /\ cur[p].sdoc = prev[p].edoc
         /\ cur[p].snodes = prev[p].enodes) =>
            /\ cur[p].rl >= 1
            /\ \A i \in 1..Len(cur[p].enodes) :
                   i > Len(cur[p].snodes) =>
                       cur[p].enodes[i] \notin Range(cur[p].snodes)

(***************************************************************************)
(* Properties of the deployed system                                       *)
(***************************************************************************)
AllIdle == \A p \in Procs : pc[p] = "idle"

\* C2 (in_nodes means applied): whenever no registration and no pass is in
\* progress, every Document entry with in_nodes set has its address at index
\* pnn of the Nodes List.
C2_InNodesApplied ==
    AllIdle => \A i \in 1..Len(doc) : doc[i].in_nodes => matched(doc[i], nodes)

Tried(p) == addrec[p].out \in {"ok", "dup"}

\* the last run of ctdb-set-node by the process has ended: the add has
\* succeeded or raised the duplicate-pnn error, or the refresh has found
\* the entry and the command has returned without adding
Registered(p) == addrec[p].out \in {"ok", "dup", "refreshed"}

\* the Document holds exactly one entry for the pnn, with the address
OneEntry(d, k, a) ==
    /\ Cardinality({i \in 1..Len(d) : d[i].pnn = k}) = 1
    /\ \A i \in 1..Len(d) : d[i].pnn = k => d[i].node = a

\* C9 as stated (concurrent registration): once two processes registering
\* the same pnn, with the same or with different addresses, have both
\* finished, exactly one registration has succeeded, the other has failed
\* with the duplicate-pnn error, and the Document holds exactly one entry
\* for the pnn, with the winner's address.
C9_OneSuccessOneDuplicate ==
    \A p, q \in Procs :
        (/\ p # q /\ ident[p].pnn = ident[q].pnn
         /\ Registered(p) /\ Registered(q)) =>
            /\ addrec[p].okcnt + addrec[q].okcnt = 1
            /\ addrec[q].okcnt = 0 =>
                   /\ addrec[q].out = "dup"
                   /\ OneEntry(doc, ident[p].pnn, ident[p].node)

\* C9 as the code has it: once two processes registering the same pnn have
\* both finished, exactly one add has succeeded and the Document holds
\* exactly one entry for the pnn, with the winner's address; the other
\* process has failed with the duplicate-pnn error, or, only when it gave
\* the winner's address and its refresh found the winner's entry, has
\* returned without error and without adding an entry.
C9_OneWinner ==
    \A p, q \in Procs :
        (/\ p # q /\ ident[p].pnn = ident[q].pnn
         /\ Registered(p) /\ Registered(q)) =>
            /\ addrec[p].okcnt + addrec[q].okcnt = 1
            /\ addrec[q].okcnt = 0 =>
                   /\ \/ addrec[q].out = "dup"
                      \/ /\ addrec[q].out = "refreshed"
                         /\ ident[q].node = ident[p].node
                   /\ ident[q].node # ident[p].node => addrec[q].out = "dup"
                   /\ OneEntry(doc, ident[p].pnn, ident[p].node)

\* two processes have registered the same pnn with the same address at the
\* same time: both got past the refresh, one add succeeded and the other
\* raised the duplicate-pnn error
C9_Witness ==
    \E p, q \in Procs :
        /\ p # q /\ ident[p] = ident[q]
        /\ addrec[p].out = "ok" /\ addrec[p].okcnt = 1
        /\ addrec[q].out = "dup" /\ addrec[q].okcnt = 0
        /\ AllIdle

(***************************************************************************)
(* Properties of add_node_to_statefile                                     *)
(***************************************************************************)
\* C10 (duplicate pnn): a call fails with the duplicate-pnn error exactly
\* when the Document it loaded already holds the pnn, whatever the address
\* and in_nodes given; after the failure the Document is what it was; and
\* the pnn values of the Document are always unique.
C10_DuplicateRejected ==
    /\ UniquePnn(doc)
    /\ \A p \in Procs :
          (pc[p] = "idle" /\ Tried(p)) =>
              /\ addrec[p].out = "dup" <=>
                     addrec[p].pnn \in PnnsOf(addrec[p].sdoc)
              /\ addrec[p].out = "dup" => doc = addrec[p].sdoc

C10_Witness ==
    \E p \in Procs : \E i \in 1..Len(doc) :
        /\ pc[p] = "idle"
        /\ addrec[p].out = "dup"
        /\ doc[i].pnn = addrec[p].pnn
        /\ doc[i].node # addrec[p].node
        /\ doc[i].in_nodes # addrec[p].in_nodes

(***************************************************************************)
(* Properties of the two files over time                                   *)
(***************************************************************************)
\* every entry of d is still in e, at its place, with its node and pnn, and
\* with in_nodes set if it was set in d
DocForward(d, e) ==
    /\ Len(e) >= Len(d)
    /\ \A i \in 1..Len(d) :
          /\ e[i].node = d[i].node
          /\ e[i].pnn = d[i].pnn
          /\ d[i].in_nodes => e[i].in_nodes

\* C11 (the Document only grows): whatever registrations, passes and
\* readiness polls do and however they interleave, no step removes an entry
\* of the Document, changes an entry's node or pnn, or takes in_nodes from
\* true back to false.
C11_DocOnlyGrows == [][DocForward(doc, doc')]_vars

C11_Witness ==
    \E p \in Procs : \E i \in 1..Len(doc) :
        /\ Len(doc) >= 2
        /\ cur[p].out = "ok"
        /\ i <= Len(cur[p].sdoc)
        /\ ~cur[p].sdoc[i].in_nodes
        /\ doc[i].in_nodes
        /\ \E q \in Procs : gate[q] = "ready"

IsPrefix(s, t) == Len(s) <= Len(t) /\ \A i \in 1..Len(s) : s[i] = t[i]

\* the process opens the nodes file for writing, which empties it
Opens(p) ==
    \/ pc[p] = "write" /\ pc'[p] = "write_nodes"
    \/ pc[p] = "ensure_write" /\ pc'[p] = "ensure_flush"

\* the process writes its lines and closes the nodes file
Completes(p) ==
    \/ pc[p] = "write_nodes" /\ pc'[p] = "reload"
    \/ pc[p] = "ensure_flush" /\ pc'[p] = "idle"

\* the process is between the open and the write
Rewriting(p) == pc[p] \in {"write_nodes", "ensure_flush"}

\* C12 (the Nodes List is append-only): the nodes file changes only in a
\* write, which is the open and the lines written after it, in the bootstrap
\* of ctdb-set-node or in a pass of any process; no two writes overlap; and
\* every write leaves a list that has the lines the file held before the
\* write as a prefix, so that from write to write the length of the list
\* never shrinks and no position changes its address.
C12_AppendOnly ==
    [][/\ \A p \in Procs :
             Completes(p) =>
                 /\ IsPrefix(loc[p].before, nodes')
                 /\ IsPrefix(nodes, nodes')
       /\ \A p, q \in Procs : (Rewriting(p) /\ Rewriting(q)) => p = q
       /\ nodes' # nodes => \E p \in Procs : Opens(p) \/ Completes(p)]_vars

\* the bootstrap has written the address of pnn 0, and a pass of another
\* process has written a longer list over it
C12_Witness ==
    \E p, q \in Procs :
        /\ p # q
        /\ ensrec[q].out = "ok"
        /\ pc[p] = "reload"
        /\ loc[p].before # <<>>
        /\ Len(nodes) > Len(loc[p].before)

(***************************************************************************)
(* More properties of one reconciliation pass                              *)
(***************************************************************************)
\* the number of entries that are pending, or confirmed without their
\* address at index pnn of the list
Divergence(d, ns) == Cardinality({i \in 1..Len(d) : ~Fine(d[i], ns)})

\* C13 (a pass never increases divergence): when a pass has ended, with or
\* without an error, the divergence of the files it leaves is at most the
\* divergence of the files it found.
C13_DivergenceNotIncreased ==
    \A p \in Procs :
        cur[p].out \in Completed =>
            Divergence(cur[p].edoc, cur[p].enodes) <=
                Divergence(cur[p].sdoc, cur[p].snodes)

C13_Witness ==
    \E p \in Procs :
        /\ cur[p].out \in Completed
        /\ cur[p].wn
        /\ Len(cur[p].snodes) >= 1
        /\ Divergence(cur[p].sdoc, cur[p].snodes) >= 2
        /\ Divergence(cur[p].edoc, cur[p].enodes) <
               Divergence(cur[p].sdoc, cur[p].snodes)

\* a single entry of pnn 0, confirmed
SingleConfirmed(d) == Len(d) = 1 /\ d[1].pnn = 0 /\ d[1].in_nodes

\* what a finished pass of _node_update did with a single confirmed entry
\* found beside an empty nodes file, and with a confirmed entry that the
\* nodes file does not hold at its pnn and whose pnn is the length of that
\* file
PassReapplies(p) ==
    /\ (SingleConfirmed(cur[p].sdoc) /\ cur[p].snodes = <<>>) =>
           /\ cur[p].out \in {"ok", "relerr"}
           /\ cur[p].enodes = <<cur[p].sdoc[1].node>>
           /\ cur[p].edoc = cur[p].sdoc
    /\ \A i \in 1..Len(cur[p].sdoc) :
           (/\ cur[p].sdoc[i].in_nodes
            /\ ~matched(cur[p].sdoc[i], cur[p].snodes)
            /\ cur[p].sdoc[i].pnn = Len(cur[p].snodes)) =>
               /\ IsPrefix(cur[p].snodes, cur[p].enodes)
               /\ \E k \in (Len(cur[p].snodes) + 1)..Len(cur[p].enodes) :
                      cur[p].enodes[k] = cur[p].sdoc[i].node

\* an iteration of manage_nodes that loaded the state file with the single
\* entry {address, 0, true} of the local node, and reads an empty nodes
\* file, goes on to the pass of _node_update
LoopReapplies(p) ==
    (/\ pc[p] = "node_check"
     /\ pc'[p] # "node_check"
     /\ SingleConfirmed(loc[p].json_data)
     /\ doc = loc[p].json_data
     /\ nodes = <<>>) => pc'[p] = "probe"

\* C14 (re-applying a confirmed entry): when the Document holds the single
\* entry {address, 0, true} and the Nodes List is empty, an iteration of the
\* monitoring loop runs the reconciliation pass, and the pass leaves the
\* Nodes List equal to [address] and the Document as it was; and in every
\* pass a confirmed entry that is missing from the list and whose pnn is the
\* list length has its address appended to the list.
C14_ReapplyConfirmed ==
    /\ [](\A p \in Procs : cur[p].out \in Completed => PassReapplies(p))
    /\ [][\A p \in Procs : LoopReapplies(p)]_vars

(***************************************************************************)
(* Properties of the retry loop of ctdb-manage-nodes                       *)
(***************************************************************************)
\* the handler of ctdb_manage_nodes takes its step: the counter goes up by
\* one, and the loop waits while the counter is at most MaxErrors and ends
\* with the error once it is more
HandlerStep(p) ==
    /\ pc[p] = "except" =>
          /\ sup'[p].errors = sup[p].errors + 1
          /\ sup'[p].mode = "on"
          /\ pc'[p] = IF sup'[p].errors > MaxErrors THEN "reraise" ELSE "wait"
    /\ pc[p] = "reraise" =>
          /\ sup'[p].errors = sup[p].errors
          /\ sup'[p].mode = "dead" /\ pc'[p] = "exit"

\* C15 (bounded retry): every pass that raises, with ValueError or with the
\* failure of the reload alike (or, before any pass, because the state file
\* is absent), reaches the handler and is counted; after an
\* error the loop waits and goes on while the counter is at most 10, and it
\* ends with the error exactly when the counter exceeds 10, at the 11th
\* counted failure; so a loop whose every pass raises ends after 11 passes.
C15_BoundedRetry ==
    /\ [](\A p \in Procs :
            /\ sup[p].mode = "dead" =>
                   /\ sup[p].errors = MaxErrors + 1
                   /\ cur[p].out \in Raised
            /\ (sup[p].mode = "on" /\ pc[p] # "reraise") =>
                   sup[p].errors <= MaxErrors
            /\ pc[p] = "reraise" => sup[p].errors = MaxErrors + 1
            /\ pc[p] \in {"except", "wait", "reraise"} =>
                   /\ sup[p].mode = "on"
                   /\ cur[p].out \in Raised
            /\ sup[p].consec <=
                   sup[p].errors + (IF pc[p] = "except" THEN 1 ELSE 0))
    /\ [][\A p \in Procs : HandlerStep(p)]_vars

C15_Witness ==
    \E p \in Procs :
        /\ sup[p].mode = "dead"
        /\ cur[p].out = "valerr"
        /\ sup[p].consec = MaxErrors + 1
        /\ Mismatch(doc, nodes)

\* C16 (consecutive failures only): the counter is the number of passes
\* that have raised since the last pass that returned (a pass that returns
\* sets it to zero), and the loop ends only after more than 10 passes in a
\* row have raised.
C16_ConsecutiveOnly ==
    \A p \in Procs :
        /\ pc[p] # "except" => sup[p].errors = sup[p].consec
        /\ sup[p].mode = "dead" => sup[p].consec > MaxErrors

\* the Document has no entry for the pnn, or the address of that entry is
\* not in the Nodes List
Ineligible(k, d, ns) ==
    \A i \in 1..Len(d) : d[i].pnn = k => d[i].node \notin Range(ns)

\* C19 (ineligible nodes make no changes): an iteration of manage_nodes that
\* finds no entry for the local pnn, or finds the entry's address missing
\* from the Nodes List, goes on to the wait with both files untouched, no
\* pass begun and no reload invoked, whatever other entries are pending.
C19_IneligibleNoChanges ==
    [][\A p \in Procs :
          /\ (pc[p] = "check" /\ exists) =>
                /\ pc'[p] = "node_check"
                /\ doc' = doc /\ nodes' = nodes /\ cur' = cur /\ sup' = sup
          /\ (pc[p] = "node_check" /\ Ineligible(ident[p].pnn, doc, nodes)) =>
                /\ pc'[p] = IF sup[p].mode = "on" THEN "pause" ELSE "idle"
                /\ doc' = doc /\ nodes' = nodes /\ cur' = cur /\ sup' = sup]_vars

C19_Witness ==
    \E p \in Procs : \E i, j \in 1..Len(doc) :
        /\ pc[p] = "pause"
        /\ cur[p].out = "none"
        /\ doc[i].pnn = ident[p].pnn
        /\ doc[i].node \notin Range(nodes)
        /\ j # i
        /\ ~doc[j].in_nodes
        /\ doc[j].pnn = Len(nodes)

(***************************************************************************)
(* Properties of the commands ctdb-set-node and ctdb-must-have-node        *)
(***************************************************************************)
\* C17 (in_nodes from the claimed pnn): every entry a registration has
\* appended was created with in_nodes equal to (stored pnn = 0), also when
\* no node number was given and the pnn stored is the default 0.
C17_InNodesFromPnn ==
    \A p \in Procs :
        addrec[p].out = "ok" => (addrec[p].in_nodes <=> addrec[p].pnn = 0)

\* the Document has an entry with the pnn and in_nodes set
HasConfirmed(d, k) == \E i \in 1..Len(d) : d[i].pnn = k /\ d[i].in_nodes

\* a poll of ctdb-must-have-node returns exactly when the Document has the
\* confirmed entry and goes to the wait otherwise (without a state file the
\* command ends with FileNotFoundError and has not returned); the wait goes
\* back to the poll; neither touches a file or begins a pass
PollStep(p) ==
    /\ (pc[p] = "poll" /\ pc'[p] # "poll") =>
          /\ doc' = doc /\ nodes' = nodes /\ cur' = cur
          /\ IF HasConfirmed(doc, ident[p].pnn)
             THEN pc'[p] = "idle" /\ gate'[p] = "ready"
             ELSE IF exists
             THEN pc'[p] = "poll_wait" /\ gate'[p] = "none"
             ELSE pc'[p] = "idle" /\ gate'[p] = "nofile"
    /\ (pc[p] = "poll_wait" /\ pc'[p] # "poll_wait") =>
          /\ doc' = doc /\ nodes' = nodes /\ cur' = cur
          /\ pc'[p] = "poll" /\ gate'[p] = "none"

\* C18 (readiness gate): ctdb-must-have-node has returned only in states
\* where the Document holds an entry with the caller's pnn and in_nodes set;
\* a poll that does not find it is followed by a wait; and neither the poll
\* nor the wait writes the Document or the Nodes List or invokes reload.
C18_ReadinessGate ==
    /\ [](\A p \in Procs :
            gate[p] = "ready" => HasConfirmed(doc, ident[p].pnn))
    /\ [][\A p \in Procs : PollStep(p)]_vars

C18_Witness ==
    \E p, q \in Procs :
        /\ p # q
        /\ gate[p] = "ready"
        /\ ident[p].pnn > 0
        /\ ~addrec[p].in_nodes
        /\ cur[q].out = "ok"

(***************************************************************************)
(* Properties of ensure_ctdb_node_present                                  *)
(***************************************************************************)
\* the list with the address added at the end unless it is listed
WithNode(ns, a) ==
    IF \E i \in 1..Len(ns) : ns[i] = a THEN ns ELSE ns \o <<a>>

\* the index of the first line that holds the address
FirstAt(ns, a) ==
    CHOOSE k \in 0..Len(ns) :
        /\ k < Len(ns)
        /\ ns[k + 1] = a
        /\ \A j \in 1..k : ns[j] # a

\* C20 (bootstrap position check): a call that has ended has either raised
\* ValueError, exactly when an expected pnn was given and differs from the
\* index of the address in the list with the address added, and has then
\* left the nodes file and the symlink as they were; or it has left the
\* nodes file equal to the former list, with the address appended only if
\* it was not listed, and the symlink in place.
C20_PositionCheck ==
    \A p \in Procs :
        ensrec[p].out \in {"ok", "valerr"} =>
            LET r == ensrec[p]
                want == WithNode(r.snodes, r.node)
            IN IF r.expect /\ FirstAt(want, r.node) # r.pnn
               THEN /\ r.out = "valerr"
                    /\ nodes = r.snodes
                    /\ symlink = r.ssym
                    /\ ~r.link
               ELSE /\ r.out = "ok"
                    /\ nodes = want
                    /\ IsPrefix(r.snodes, nodes)
                    /\ symlink

C20_Witness ==
    \E p \in Procs :
        /\ ensrec[p].out = "valerr"
        /\ ensrec[p].node \in Range(ensrec[p].snodes)
        /\ Len(nodes) >= 2
        /\ ~symlink


(***************************************************************************)
(* KeyboardInterrupt in the retry loop                                     *)
(***************************************************************************)
\* the step in which the interrupt is raised ends the loop at once with the
\* error counter as it was, and nothing happens afterwards
InterruptStep(p) ==
    /\ (sup'[p].intr /\ ~sup[p].intr) =>
          /\ pc'[p] = "exit"
          /\ sup'[p].mode = "interrupted"
          /\ sup'[p].errors = sup[p].errors
    /\ sup[p].intr =>
          /\ pc'[p] = pc[p] /\ sup'[p] = sup[p] /\ cur'[p] = cur[p]
          /\ doc' = doc /\ nodes' = nodes

\* C21: a KeyboardInterrupt raised during a pass or during a wait ends the
\* supervisor at once: the error counter is not incremented, and no further
\* wait or pass follows
C21_InterruptPropagates == [][\A p \in ApiProcs : InterruptStep(p)]_vars

\* the loop has counted a failure, and is then interrupted in the middle of
\* a pass that had written the nodes file
C21_Witness ==
    \E p \in ApiProcs :
        /\ sup[p].intr /\ pc[p] = "exit"
        /\ sup[p].errors >= 1
        /\ cur[p].out = "intr" /\ cur[p].wn

(***************************************************************************)
(* The nodes file and the lock of the state file                           *)
(***************************************************************************)
\* the process has read the nodes file and is about to write it back
InRmw(p) ==
    pc[p] \in {"write", "write_nodes", "ensure_link", "ensure_symlink",
               "ensure_write", "ensure_flush"}

\* C22: the nodes file is written only by a process that holds the exclusive
\* lock of the state file, so two read-modify-write sequences on the nodes
\* file never overlap
C22_NodesUnderLock ==
    /\ \A p \in Procs :
          pc[p] \in {"write", "write_nodes", "ensure_write", "ensure_flush"} =>
              lock = p
    /\ \A p, q \in Procs : (InRmw(p) /\ InRmw(q)) => p = q

(***************************************************************************)
(* The plan of a pass is made under the lock                               *)
(***************************************************************************)
\* C23: the changes a pass commits are derived from the state file loaded
\* and the nodes file read after the exclusive lock was taken, never from
\* what the probe saw; and a pass whose decision is "nothing to do", at the
\* probe or at the check under the lock, writes neither file and does not
\* reload
C23_DoubleCheck ==
    \A p \in Procs :
        /\ pc[p] = "write" =>
              /\ lock = p
              /\ loc[p].json_data = doc
              /\ loc[p].ctdb_nodes = nodes
              /\ LET r == _node_update_check(doc, nodes)
                 IN /\ ~r.err
                    /\ loc[p].new_nodes = r.new_nodes
                    /\ loc[p].need_reload = r.need_reload
        /\ pc[p] = "write_nodes" =>
              /\ lock = p
              /\ loc[p].json_data = doc
              /\ nodes = <<>>
        /\ pc[p] \in {"reload", "dump"} =>
              /\ lock = p
              /\ loc[p].json_data = doc
              /\ nodes = loc[p].ctdb_nodes \o loc[p].new_nodes
        /\ cur[p].out = "noop" => NoWrites(cur[p])

\* the probe of a pass found changes to make, another process committed
\* them first, and the check under the lock found nothing left to do
C23_Witness ==
    \E p, q \in Procs :
        /\ p # q
        /\ cur[p].out = "noop" /\ cur[p].chg
        /\ cur[q].out = "ok"
        /\ cur[p].edoc # cur[p].sdoc

(***************************************************************************)
(* The order of the three steps of a commit                                *)
(***************************************************************************)
\* what a pass has done so far, at each of its steps under the lock
CommitOrder(p) ==
    /\ pc[p] = "write" =>
          lock = p /\ ~cur[p].wn /\ cur[p].rl = 0 /\ ~cur[p].wd
    /\ pc[p] \in {"write_nodes", "reload"} =>
          lock = p /\ cur[p].wn /\ cur[p].rl = 0 /\ ~cur[p].wd
    /\ pc[p] = "dump" =>
          lock = p /\ cur[p].wn /\ cur[p].rl = 1 /\ cur[p].rc = "ok"
                   /\ ~cur[p].wd
    /\ cur[p].wd => cur[p].wn /\ cur[p].rc = "ok"
    /\ cur[p].rc = "fail" => ~cur[p].wd /\ cur[p].out = "relerr"
    /\ cur[p].rl <= 1

\* a step that changes the nodes file is taken by the holder of the lock
\* before its reload; a step that changes the state file is taken by the
\* holder of the lock after its reload has succeeded
CommitStep ==
    /\ nodes' # nodes =>
          \E p \in Procs : lock = p /\ cur[p].rl = 0 /\ ~cur[p].wd
    /\ doc' # doc =>
          \E p \in Procs : lock = p /\ cur[p].wn /\ cur[p].rc = "ok"

\* C24: in a pass that commits, the nodes file is written first, the reload
\* is invoked next, the state file is persisted last, all under the lock;
\* the state file is persisted only when the reload succeeded, and the
\* reload is invoked at most once in a pass
C24_CommitOrdering ==
    /\ [](\A p \in Procs : CommitOrder(p))
    /\ [][CommitStep]_vars

\* a pass has appended to the nodes file, reloaded, and flipped flags in the
\* state file
C24_Witness ==
    \E p \in Procs :
        /\ cur[p].out = "ok" /\ cur[p].wn /\ cur[p].rl = 1 /\ cur[p].wd
        /\ cur[p].enodes # cur[p].snodes
        /\ cur[p].edoc # cur[p].sdoc

(***************************************************************************)
(* The order in which a pass appends                                       *)
(***************************************************************************)
\* the positions (in json_data) of the entries whose address the pass
\* appends
Appended(p) ==
    {j \in Range(loc[p].need_reload) : loc[p].json_data[j].in_nodes}

\* the pnns to append are the next free indices of the nodes file, so that
\* appending them in ascending order of pnn puts each address at its index
NextFree(p) ==
    {loc[p].json_data[j].pnn : j \in Appended(p)} =
        {k \in Pnns : /\ k >= Len(loc[p].ctdb_nodes)
                      /\ k < Len(loc[p].ctdb_nodes) + Len(loc[p].new_nodes)}

\* C25: the addresses are appended in ascending order of pnn, not in the
\* order of the state file, so that each appended address lands at the
\* index equal to its pnn
C25_AppendByPnn ==
    \A p \in ApiProcs :
        (pc[p] = "reload" /\ NextFree(p)) =>
            \A j \in Appended(p) : matched(loc[p].json_data[j], nodes)

(***************************************************************************)
(* The order of pass and wait in the loop                                  *)
(***************************************************************************)
\* _node_update is running
Running(p) ==
    pc[p] \in {"probe", "commit_lock", "recheck", "write", "write_nodes",
               "reload", "dump"}

\* C26 as stated: the wait is invoked before the pass in every iteration,
\* so that no pass runs before the first wait, and between two consecutive
\* passes the wait is invoked
C26_WaitBeforePass ==
    \A p \in ApiProcs :
        sup[p].mode = "on" =>
            /\ Running(p) => sup[p].waited
            /\ sup[p].psw <= 1

\* C26 as the code has it: an iteration begins with the check and the pass
\* and ends with the wait, so that every iteration begins with no pass made
\* since the last wait, and between two consecutive passes the wait is
\* invoked; the first pass is not preceded by a wait
C26_PassBeforeWait ==
    \A p \in ApiProcs :
        sup[p].mode = "on" =>
            /\ sup[p].psw <= 1
            /\ pc[p] \in {"check", "node_check"} => sup[p].psw = 0
            /\ Running(p) => sup[p].psw = 1
            /\ pc[p] = "pause" => sup[p].psw <= 1 /\ cur[p].out # "run"

\* the first pass has committed, and no wait has been called yet
C26_Witness ==
    \E p \in ApiProcs :
        /\ sup[p].mode = "on" /\ pc[p] = "pause"
        /\ ~sup[p].waited
        /\ cur[p].out = "ok" /\ cur[p].wn

(***************************************************************************)
(* ctdb-set-node: the bootstrap of pnn 0, and the refresh                  *)
(***************************************************************************)
\* the state file records the node of the last registration as applied
RecordedApplied(p) ==
    \E i \in 1..Len(doc) : /\ doc[i].pnn = addrec[p].pnn
                            /\ doc[i].node = addrec[p].node
                            /\ doc[i].in_nodes

\* C27: when the registration of a new pnn-0 node returns successfully, the
\* nodes file has its address at index 0 and the state file has its entry
\* with in_nodes true; when the nodes file step fails, because the address
\* would not be at index 0, the state file does not record the pnn-0 entry
\* as in_nodes true
C27_SyncBootstrap ==
    \A p \in ApiProcs :
        (pc[p] = "idle" /\ addrec[p].out = "ok" /\ addrec[p].pnn = 0) =>
            /\ ensrec[p].out # "valerr" =>
                  /\ matched(Entry(addrec[p].node, 0, TRUE), nodes)
                  /\ RecordedApplied(p)
            /\ ensrec[p].out = "valerr" => ~RecordedApplied(p)

\* the step of ctdb_set_node that finds the entry of the node in the state
\* file
RefreshStep(p) ==
    (/\ pc[p] = "refresh" /\ pc'[p] # "refresh"
     /\ \E i \in 1..Len(doc) : /\ doc[i].pnn = loc[p].pnn
                               /\ doc[i].node = loc[p].node) =>
        /\ pc'[p] = "idle"
        /\ addrec'[p].out = "refreshed"
        /\ doc' = doc /\ nodes' = nodes /\ symlink' = symlink

\* C28: a registration for a pnn whose entry already exists and matches
\* succeeds and leaves the state file and the nodes file as they were: no
\* second entry is appended and no duplicate-pnn error is raised
C28_RefreshNoop ==
    /\ [](\A p \in ApiProcs :
            (pc[p] = "idle" /\ addrec[p].out = "refreshed") =>
                doc = addrec[p].sdoc)
    /\ [][\A p \in ApiProcs : RefreshStep(p)]_vars

\* a node has registered, has run the command again, and the second run
\* has returned after the refresh
C28_Witness ==
    \E p \in ApiProcs :
        /\ pc[p] = "idle" /\ addrec[p].out = "refreshed"
        /\ addrec[p].okcnt = 1

(***************************************************************************)
(* Eventual admission                                                      *)
(***************************************************************************)
\* the nodes of pnn 1 and 2 have registered, in whichever order
AllRegistered ==
    /\ \E i \in 1..Len(doc) : doc[i].pnn = Joiner.pnn /\ doc[i].node = Joiner.node
    /\ \E i \in 1..Len(doc) : doc[i].pnn = Other.pnn /\ doc[i].node = Other.node

\* every entry is confirmed and its address is at index pnn
AllFine == \A i \in 1..Len(doc) : Fine(doc[i], nodes)

\* the reload command of the last pass of the supervisor has failed
ReloadFailed == cur["p1"].rc = "fail"

\* C29: once pnn 0 has bootstrapped and the nodes 1..k have registered, in
\* any order, with the supervisor of pnn 0 running, then, unless the reload
\* fails again later, every entry eventually has in_nodes true and its
\* address at index pnn, and the block-until-admitted call of a node
\* eventually returns
C29_EventualAdmission ==
    /\ AllRegistered ~> (AllFine \/ ReloadFailed)
    /\ (AllRegistered /\ pc["p2"] \in {"poll", "poll_wait"})
           ~> (gate["p2"] = "ready" \/ ReloadFailed)

(***************************************************************************)
(* The lock is released on every way out, and is never taken twice         *)
(***************************************************************************)
\* the steps a process takes inside a with-block of the state file that
\* holds the exclusive lock
Locked == {"add_update", "add_dump", "recheck", "write", "write_nodes",
           "reload", "dump"}

\* the process is about to ask for the lock
Requests(p) == pc[p] \in {"add_lock", "commit_lock"}

\* C30: on every way out of a locked section (a return, a return with
\* nothing to do, the out-of-order error, the duplicate-pnn error, the
\* failure of the reload) the process no longer holds the lock, and no
\* process asks for the lock while it holds it
C30_LockReleased ==
    \A p \in Procs :
        /\ lock = p <=> pc[p] \in Locked
        /\ Requests(p) => lock # p
        /\ (pc[p] = "idle" /\ cur[p].out \in Completed) => lock # p
        /\ (pc[p] = "idle" /\ addrec[p].out \in {"ok", "dup"}) => lock # p

\* one node has been refused with the duplicate-pnn error and the pass of
\* the other has raised, each after holding the lock, and the lock is free
C30_Witness ==
    /\ lock = NoProc
    /\ pc["p2"] = "idle" /\ addrec["p2"].out = "dup"
    /\ pc["p1"] = "idle" /\ cur["p1"].out = "relerr"

(***************************************************************************)
(* The bootstrap of pnn 0 after a crash                                    *)
(***************************************************************************)
\* ctdb-set-node died between the state file and the nodes file, and has
\* been run again for the same node and has returned
Rerun(p) ==
    /\ ensrec[p].out = "crash"
    /\ pc[p] = "idle" /\ addrec[p].out \in {"refreshed", "dup"}

\* C31: when the registration of pnn 0 is interrupted after its entry was
\* added to the state file and before the nodes file was written, and is
\* run again for the same node, the nodes file eventually holds the
\* address of pnn 0 at index 0
C31_BootstrapRecovers ==
    Rerun("p1") ~> matched(Entry(ident["p1"].node, 0, TRUE), nodes)
====
